---- MODULE Spec2Model ----
(***************************************************************************)
(* Model of mininet/fault_controllers/ConfigFileFaultController.py:        *)
(* the controller process (ConfigFileFaultControllerStarter), the injector *)
(* process (ConfigFileFaultController) and the two pipes between them.     *)
(***************************************************************************)
EXTENDS Integers, Sequences, FiniteSets, TLC

\* ------------------------------------------------------------------ bounds
\* largest number of fault units a configuration yields
MaxFaults == 2
\* largest number of go() calls the embedding caller makes
MaxGo == 2
\* largest number of payloads a peer writes to the controller->injector pipe
MaxWire == 2
\* largest number of links of a topology
MaxLinks == 3
\* largest number of is_active() calls the embedding caller makes
MaxCalls == 3

\* ------------------------------------------------------- message vocabulary
MESSAGE_SETUP_DONE == "m_faultinjector_ready"
MESSAGE_SETUP_ERROR == "m_faultinjector_setuperror"
MESSAGE_START_INJECTING == "m_faultinjector_go"
MESSAGE_INJECTION_DONE == "m_faultinjector_done"
MESSAGE_WRITE_LOGS == "m_write_logs"

\* str.encode(): the byte payload of a token; a payload never equals a str
Encode(s) == <<"bytes", s>>

\* the tokens a peer on the injector->controller pipe may write first
\* (the five protocol messages and one token outside the vocabulary)
Tokens ==
  { MESSAGE_SETUP_DONE, MESSAGE_SETUP_ERROR, MESSAGE_START_INJECTING,
    MESSAGE_INJECTION_DONE, MESSAGE_WRITE_LOGS, "garbage" }

\* the payloads of a pipe or of a history
Range(q) == { q[i] : i \in DOMAIN q }

\* ------------------------------------------------- values and strings
\* A str is the sequence of its characters; None is NoneV; an int n is
\* <<"int", n>>; a Python tuple is a tuple.
NoneV == <<"None">>
IntV(n) == <<"int", n>>

\* Op applied to the value of v, which is computed once
With(v, Op(_)) == CHOOSE y \in { Op(w) : w \in { v } } : TRUE

\* bool(x) of a str or None
Truthy(x) == x # NoneV /\ x # << >>

Take(s, k) == SubSeq(s, 1, k)
Drop(s, k) == SubSeq(s, k + 1, Len(s))
StartsWith(s, p) == Len(s) >= Len(p) /\ Take(s, Len(p)) = p

\* the characters \w matches in the names used here: [a-zA-Z0-9_]
WordChars ==
  { "a", "b", "c", "d", "e", "f", "g", "h", "i", "j", "k", "l", "m", "n", "o",
    "p", "q", "r", "s", "t", "u", "v", "w", "x", "y", "z",
    "A", "B", "C", "D", "E", "F", "G", "H", "I", "J", "K", "L", "M", "N", "O",
    "P", "Q", "R", "S", "T", "U", "V", "W", "X", "Y", "Z",
    "0", "1", "2", "3", "4", "5", "6", "7", "8", "9", "_" }

\* length of the longest run of word characters s starts with (greedy \w*)
RECURSIVE WordRun(_)
WordRun(s) ==
  IF s # << >> /\ Head(s) \in WordChars THEN 1 + WordRun(Tail(s)) ELSE 0

\* "$": the end of the string, or just before a newline that ends it
AtEnd(s) == s = << >> \/ s = << "\n" >>

\* re.match("^(\w*)->(\w*)$", s): the groups, or NoneV. The run before
\* "->" is the longest one, since "-" is no word character.
MatchImplicit(s) ==
  LET g1 == Take(s, WordRun(s))
      r1 == Drop(s, Len(g1))
      r2 == Drop(r1, 2)
      g2 == Take(r2, WordRun(r2))
  IN IF StartsWith(r1, << "-", ">" >>) /\ AtEnd(Drop(r2, Len(g2)))
       THEN << g1, g2 >>
       ELSE NoneV

\* re.match("^(\w*)->(\w*):(\w*)$", s): the groups, or NoneV
MatchExplicit(s) ==
  LET g1 == Take(s, WordRun(s))
      r1 == Drop(s, Len(g1))
      r2 == Drop(r1, 2)
      g2 == Take(r2, WordRun(r2))
      r3 == Drop(r2, Len(g2))
      r4 == Drop(r3, 1)
      g3 == Take(r4, WordRun(r4))
  IN IF /\ StartsWith(r1, << "-", ">" >>)
        /\ StartsWith(r3, << ":" >>)
        /\ AtEnd(Drop(r4, Len(g3)))
       THEN << g1, g2, g3 >>
       ELSE NoneV

\* ------------------------------------------------------------ topology
\* A node is <<name, pid>>, an interface <<node, name>>, a link
\* <<intf1, intf2>>, a net <<hosts, links>>.
NodeName(node) == node[1]
NodePid(node) == node[2]
IntfNode(intf) == intf[1]
IntfName(intf) == intf[2]
Intf1(link) == link[1]
Intf2(link) == link[2]
NetHosts(n) == n[1]
NetLinks(n) == n[2]

\* --------------------------------------------------- identifier resolver

\* the first node of net.hosts named a (lines 189-194), or NoneV
RECURSIVE FindHost(_, _)
FindHost(hosts, a) ==
  IF hosts = << >> THEN NoneV
  ELSE IF NodeName(Head(hosts)) = a THEN Head(hosts)
  ELSE FindHost(Tail(hosts), a)

\* the loop over net.links (lines 196-214) from the links still to visit,
\* with the candidate <<interface name, host>> found so far
RECURSIVE ScanLinks(_, _, _, _, _)
ScanLinks(links, a, b, explicit_name, found) ==
  IF links = << >> THEN found
  ELSE
    LET link == Head(links)
        n1 == NodeName(IntfNode(Intf1(link)))
        n2 == NodeName(IntfNode(Intf2(link)))
        side == IF n1 = a /\ n2 = b THEN Intf1(link)
                ELSE IF n1 = b /\ n2 = a THEN Intf2(link)
                ELSE NoneV
    IN IF side = NoneV
         THEN ScanLinks(Tail(links), a, b, explicit_name, found)
       ELSE IF Truthy(explicit_name)
         THEN IF explicit_name = IntfName(side)
                THEN << IntfName(side), IntfNode(side) >>
                ELSE ScanLinks(Tail(links), a, b, explicit_name,
                               << NoneV, NoneV >>)
       ELSE ScanLinks(Tail(links), a, b, explicit_name,
                      << IntfName(side), IntfNode(side) >>)

\* the names and the explicit interface lines 168-181 take from the string
ParseIdentifier(identifier_string) ==
  LET mi == MatchImplicit(identifier_string)
      me == MatchExplicit(identifier_string)
  IN IF mi # NoneV THEN << mi[1], mi[2], NoneV >>
     ELSE IF me # NoneV THEN << me[1], me[2], me[3] >>
     ELSE << identifier_string, NoneV, NoneV >>

\* the resolver without the host lookup of a bare name
get_node_and_interface_name_no_hosts(n, identifier_string) ==
  IF identifier_string = NoneV THEN << NoneV, NoneV >>
  ELSE
    LET p == ParseIdentifier(identifier_string)
        r == ScanLinks(NetLinks(n), p[1], p[2], p[3], << NoneV, NoneV >>)
    IN IF r[1] = NoneV THEN << NoneV, NoneV >> ELSE r

\* _get_node_and_interface_name_from_identifier_string:
\* <<interface name, host>>
get_node_and_interface_name_from_identifier_string(n, identifier_string) ==
  IF identifier_string = NoneV THEN << NoneV, NoneV >>
  ELSE
    LET p == ParseIdentifier(identifier_string)
        host == IF p[2] = NoneV THEN FindHost(NetHosts(n), p[1]) ELSE NoneV
        r == ScanLinks(NetLinks(n), p[1], p[2], p[3], << NoneV, NoneV >>)
    IN IF host # NoneV THEN << NoneV, host >>
       ELSE IF r[1] = NoneV THEN << NoneV, NoneV >>
       ELSE r

\* _get_passable_identifiers_from_node_and_interface_name: <<pid, interface>>
get_passable_identifiers_from_node_and_interface_name(interface_name, node) ==
  IF node = NoneV THEN << NoneV, NoneV >>
  ELSE << NodePid(node), interface_name >>

\* _get_mininet_agnostic_identifiers_from_identifier_string:
\* <<pid, interface name, identifier_string>>
get_mininet_agnostic_identifiers_from_identifier_string(n, identifier_string) ==
  With(get_node_and_interface_name_from_identifier_string(
         n, identifier_string),
       LAMBDA r :
         With(get_passable_identifiers_from_node_and_interface_name(
                r[1], r[2]),
              LAMBDA q : << q[1], q[2], identifier_string >>))

\* _is_string_in_arrow_pattern
is_string_in_arrow_pattern(identifier_string) ==
  MatchImplicit(identifier_string) # NoneV
    \/ MatchExplicit(identifier_string) # NoneV

\* ------------------------------------------------- repr and literal_eval

IsNone(v) == v = NoneV
IsInt(v) == Len(v) = 2 /\ v[1] = "int"
\* a str: neither None nor an int
IsStr(v) == ~IsNone(v) /\ ~IsInt(v)

DigitChars == << "0", "1", "2", "3", "4", "5", "6", "7", "8", "9" >>
DigitChar(d) == DigitChars[d + 1]
DigitValue(c) == CHOOSE d \in 0..9 : DigitChar(d) = c
IsDigit(c) == \E d \in 0..9 : DigitChar(d) = c

\* str(n) of a natural number
RECURSIVE Decimal(_)
Decimal(n) ==
  IF n < 10 THEN << DigitChar(n) >>
  ELSE Decimal(n \div 10) \o << DigitChar(n % 10) >>

Chars(s) == { s[k] : k \in DOMAIN s }

\* the quote repr() puts around a str
ReprQuote(s) == IF "'" \in Chars(s) /\ "\"" \notin Chars(s) THEN "\"" ELSE "'"

\* the body of repr(s): backslash, the quote in use and newline are escaped
RECURSIVE ReprBody(_, _)
ReprBody(s, q) ==
  IF s = << >> THEN << >>
  ELSE (IF Head(s) = "\\" THEN << "\\", "\\" >>
        ELSE IF Head(s) = q THEN << "\\", q >>
        ELSE IF Head(s) = "\n" THEN << "\\", "n" >>
        ELSE << Head(s) >>) \o ReprBody(Tail(s), q)

\* repr(v) of None, an int or a str
Repr(v) ==
  IF IsNone(v) THEN << "N", "o", "n", "e" >>
  ELSE IF IsInt(v) THEN Decimal(v[2])
  ELSE << ReprQuote(v) >> \o ReprBody(v, ReprQuote(v)) \o << ReprQuote(v) >>

\* repr((pid, interface_name, identifier_string))
ReprTuple(t) ==
  << "(" >> \o Repr(t[1]) \o << ",", " " >> \o Repr(t[2]) \o << ",", " " >>
    \o Repr(t[3]) \o << ")" >>

\* the value of a run of digits
RECURSIVE DecimalValue(_, _)
DecimalValue(s, acc) ==
  IF s = << >> \/ ~IsDigit(Head(s)) THEN << IntV(acc), s >>
  ELSE DecimalValue(Tail(s), 10 * acc + DigitValue(Head(s)))

\* a quoted str literal after its opening quote q: <<the str, the rest>>
RECURSIVE QuotedValue(_, _, _)
QuotedValue(s, q, acc) ==
  IF Head(s) = q THEN << acc, Tail(s) >>
  ELSE IF Head(s) = "\\"
    THEN QuotedValue(Tail(Tail(s)), q,
                     Append(acc, IF s[2] = "n" THEN "\n" ELSE s[2]))
  ELSE QuotedValue(Tail(s), q, Append(acc, Head(s)))

\* one literal at the start of s: <<its value, the rest>>
LiteralValue(s) ==
  IF StartsWith(s, << "N", "o", "n", "e" >>) THEN << NoneV, Drop(s, 4) >>
  ELSE IF IsDigit(Head(s)) THEN DecimalValue(s, 0)
  ELSE QuotedValue(Tail(s), Head(s), << >>)

\* literal_eval of the repr of a 3-tuple
literal_eval(s) ==
  With(LiteralValue(Drop(s, 1)),
       LAMBDA v1 :
         With(LiteralValue(Drop(v1[2], 2)),
              LAMBDA v2 :
                << v1[1], v2[1], LiteralValue(Drop(v2[2], 2))[1] >>))

\* ------------------------------------------------------------ fault types

type_link_delay == << "l", "i", "n", "k", "_", "f", "a", "u", "l", "t", ":", "d", "e", "l", "a", "y" >>
type_link_redirect == << "l", "i", "n", "k", "_", "f", "a", "u", "l", "t", ":", "r", "e", "d", "i", "r", "e", "c", "t" >>
type_node_stop == << "n", "o", "d", "e", "_", "f", "a", "u", "l", "t", ":", "s", "t", "o", "p" >>
type_bogus == << "b", "o", "g", "u", "s" >>
prefix_link_fault == << "l", "i", "n", "k", "_", "f", "a", "u", "l", "t", ":" >>
prefix_node_fault == << "n", "o", "d", "e", "_", "f", "a", "u", "l", "t", ":" >>

\* re.match("^<prefix>(\w*)$", s): the group, or NoneV
MatchFaultType(prefix, s) ==
  LET r == Drop(s, Len(prefix))
      g == Take(r, WordRun(r))
  IN IF StartsWith(s, prefix) /\ AtEnd(Drop(r, Len(g))) THEN g ELSE NoneV

protocol_any == << "a", "n", "y" >>
protocol_TCP == << "T", "C", "P" >>
protocol_SCTP == << "S", "C", "T", "P" >>

\* the protocols _get_target_arguments_from_fault_dict lets through
KnownProtocols ==
  { << "I", "C", "M", "P" >>, << "I", "G", "M", "P" >>, << "I", "P" >>,
    protocol_TCP, << "U", "D", "P" >>, << "I", "P", "v", "6" >>,
    << "I", "P", "v", "6", "-", "I", "C", "M", "P" >>, protocol_any }

\* -------------------------------------------------------- configuration
\* A configuration is <<faults, log>>: faults the list under "faults", log
\* NoneV without a "log" key and else <<"log", commands>>, commands NoneV or
\* a list of <<tag, host>>. A fault_object is a record: key its single key,
\* the other fields those of its fault_dict, NoneV for an absent one;
\* type_args is a list, target_traffic <<"traffic", protocol>>. A list
\* held where None may stand is <<"list", items>>.
ConfigFaults(config) == config[1]
ConfigLog(config) == config[2]
LogCommands(log_config) == log_config[2]
List(items) == << "list", items >>
Items(list) == list[2]

\* str(uuid.uuid4()): the k-th token drawn by a process, unlike any other
Uuid(process, k) ==
  << "u", "u", "i", "d", "-", process >> \o Decimal(k)

\* lines 88-112 for one fault_object: <<"ok" or the exception raised, the
\* fault_object as the call leaves it>>
NewIdentifierStrings(n, identifiers) ==
  [k \in DOMAIN identifiers |->
     With(get_mininet_agnostic_identifiers_from_identifier_string(
            n, identifiers[k]),
          LAMBDA node_identifying_tuple : ReprTuple(node_identifying_tuple))]

BuildFault(n, fault_object) ==
  With([fault_object EXCEPT
          !.identifiers = NewIdentifierStrings(n, fault_object.identifiers)],
       LAMBDA d :
         IF d.type # type_link_redirect THEN << "ok", d >>
         ELSE IF d.type_args = NoneV THEN << "TypeError", d >>
         ELSE IF Items(d.type_args) = << >> THEN << "IndexError", d >>
         ELSE IF ~IsStr(Items(d.type_args)[1]) THEN << "TypeError", d >>
         ELSE IF d.key # "link_fault" THEN << "KeyError", d >>
         ELSE << "ok",
                 [d EXCEPT !.type_args[2][1] =
                    IF is_string_in_arrow_pattern(Items(d.type_args)[1])
                      THEN get_node_and_interface_name_from_identifier_string(
                             n, Items(d.type_args)[1])[1]
                      ELSE Items(d.type_args)[1]] >>)

\* the loop of lines 85-112 from entry k on
RECURSIVE BuildFaults(_, _, _)
BuildFaults(n, faults, k) ==
  IF k > Len(faults) THEN << "ok", faults >>
  ELSE
    With(BuildFault(n, faults[k]),
         LAMBDA r :
           With([faults EXCEPT ![k] = r[2]],
                LAMBDA after :
                  IF r[1] # "ok" THEN << r[1], after >>
                  ELSE BuildFaults(n, after, k + 1)))

\* lines 121-128 for the i-th log command; re.match raises on a host that
\* is no str
BuildCommand(n, i, debug_command) ==
  LET tag == IF debug_command[1] = NoneV THEN Uuid("s", i)
             ELSE debug_command[1]
  IN IF IsInt(debug_command[2])
       THEN << "TypeError", << tag, debug_command[2] >> >>
       ELSE << "ok",
               << tag,
                  get_mininet_agnostic_identifiers_from_identifier_string(
                    n, debug_command[2])[1] >> >>

\* the loop of lines 119-128 from command i on
RECURSIVE BuildCommands(_, _, _)
BuildCommands(n, commands, i) ==
  IF i > Len(commands) THEN << "ok", commands >>
  ELSE
    With(BuildCommand(n, i, commands[i]),
         LAMBDA r :
           With([commands EXCEPT ![i] = r[2]],
                LAMBDA after :
                  IF r[1] # "ok" THEN << r[1], after >>
                  ELSE BuildCommands(n, after, i + 1)))

\* _build_yml_with_mininet_agnostic_identifiers: <<"ok" or the exception
\* raised, yml_config as the call leaves it>>; the dict is rewritten in
\* place, so the second component is also what the caller's dict has become
build_yml_with_mininet_agnostic_identifiers(n, yml_config) ==
  IF yml_config = NoneV THEN << "AttributeError", NoneV >>
  ELSE
    With(BuildFaults(n, ConfigFaults(yml_config), 1),
         LAMBDA f :
           IF f[1] # "ok" \/ ConfigLog(yml_config) = NoneV
             THEN << f[1], << f[2], ConfigLog(yml_config) >> >>
           ELSE IF LogCommands(ConfigLog(yml_config)) = NoneV
             THEN << "ok", << f[2], ConfigLog(yml_config) >> >>
           ELSE
             With(BuildCommands(
                    n, Items(LogCommands(ConfigLog(yml_config))), 1),
                  LAMBDA c : << c[1], << f[2], << "log", List(c[2]) >> >> >>))

\* _get_target_arguments_from_fault_dict: fault_target_protocol (the ports
\* are handed on as they are)
get_target_arguments_from_fault_dict(fault_dict) ==
  IF fault_dict.target_traffic = NoneV THEN protocol_any
  ELSE IF fault_dict.target_traffic[2] \notin KnownProtocols THEN protocol_any
  ELSE fault_dict.target_traffic[2]

\* the injectors lines 314-394 build for the i-th fault_object
InjectorsOf(i, fault_dict) ==
  LET fault_target_protocol == get_target_arguments_from_fault_dict(fault_dict)
      tag == IF fault_dict.tag = NoneV THEN Uuid("f", i) ELSE fault_dict.tag
      link == IF fault_dict.type = NoneV THEN NoneV
              ELSE MatchFaultType(prefix_link_fault, fault_dict.type)
      node == IF fault_dict.type = NoneV THEN NoneV
              ELSE MatchFaultType(prefix_node_fault, fault_dict.type)
  IN IF link # NoneV
       THEN [k \in DOMAIN fault_dict.identifiers |->
               With(literal_eval(fault_dict.identifiers[k]),
                    LAMBDA identifier_tuple :
                      [class |-> "LinkInjector",
                       target_interface |-> identifier_tuple[2],
                       target_namespace_pid |-> identifier_tuple[1],
                       tag |-> tag \o << "@" >> \o identifier_tuple[3],
                       fault_target_protocol |-> fault_target_protocol,
                       fault_type |-> link,
                       fault_args |-> fault_dict.type_args])]
     ELSE IF node # NoneV
       THEN [k \in DOMAIN fault_dict.identifiers |->
               With(literal_eval(fault_dict.identifiers[k]),
                    LAMBDA identifier_tuple :
                      [class |-> "NodeInjector",
                       target_process_pid |-> identifier_tuple[1],
                       tag |-> tag \o << "@" >> \o identifier_tuple[3],
                       fault_type |-> node,
                       fault_args |-> fault_dict.type_args])]
     ELSE << >>

\* the loop of _configByFile over the fault objects from the i-th on
RECURSIVE ConfigFrom(_, _)
ConfigFrom(fault_objects, i) ==
  IF i > Len(fault_objects) THEN << >>
  ELSE InjectorsOf(i, fault_objects[i]) \o ConfigFrom(fault_objects, i + 1)

\* _configByFile that gives every entry a single injector
configByFile_first_identifier(config) ==
  ConfigFrom(
    [i \in DOMAIN ConfigFaults(config) |->
       [ConfigFaults(config)[i] EXCEPT
          !.identifiers = IF @ = << >> THEN @ ELSE << @[1] >>]],
    1)

\* _configByFile: the list self.faults
configByFile(config) == ConfigFrom(ConfigFaults(config), 1)

\* what a fault unit's run-to-completion operation does once started
Fates == {"completes", "hangs", "fails"}

VARIABLES
  filepath_to_config_file,  \* argument of the Starter: a path or NoneV
  file_config,              \* what yaml.safe_load gives for the file
  config,                   \* the Starter's configuration dict
  builds,                   \* per call of the build: <<given, outcome, result>>
  mininet_agnostic_faultconfig, \* the configuration the injector was given
  injectors,                \* the injector's list self.faults
  bpc,                      \* Starter before the spawn: "off", "load", "build",
                            \* "start", "started", "raised"
  net,                      \* the Mininet topology: <<hosts, links>>
  reference,                \* the identifier under resolution, by its parts
  identifier_string,        \* the identifier as written in the configuration
  resolved,                 \* what the resolver returned for it, << >> before
  config_has_log,           \* 'log' in config (the configuration file)
  fate,                     \* fault unit -> what its go() will do
  ctlPc,                    \* controller: "new", "start_recv", "idle", "exited"
  faults_are_active,        \* Starter.faults_are_active
  logger_active,            \* Starter.logger_active
  atexit_hooks,             \* number of registered notify_to_write_to_logfile
  goCalls,                  \* go() calls made so far
  calls,                    \* is_active() calls made so far
  ret,                      \* return value of the latest is_active() call
  pipe_mininet_to_faults,   \* controller -> injector pipe, oldest first
  pipe_faults_to_mininet,   \* injector -> controller pipe, oldest first
  ctlSent,                  \* history: payloads the controller wrote
  ctlRecvd,                 \* history: payloads the controller read
  injPc,                    \* injector: position in entrypoint/wait_until_go/go
  fault_logger,             \* Controller.fault_logger: "None" or "FaultLogger"
  faults,                   \* Controller.faults: unit -> state of its go()
  log_task,                 \* the task running fault_logger.go()
  log_stopped,              \* fault_logger.stop() was called
  log_task_activator,       \* the coroutine listen_for_log_write()
  injSent,                  \* history: payloads the injector wrote
  injRecvd                  \* history: payloads the injector read

ctlVars == << ctlPc, faults_are_active, logger_active, atexit_hooks, goCalls,
              calls, ret, ctlSent, ctlRecvd >>
injVars == << injPc, fault_logger, faults, log_task, log_stopped,
              log_task_activator, injSent, injRecvd >>
resVars == << net, reference, identifier_string, resolved >>
buildVars == << filepath_to_config_file, file_config, config, builds,
               mininet_agnostic_faultconfig, injectors, bpc >>
cfgVars == << config_has_log, fate, resVars, buildVars >>
pipes == << pipe_mininet_to_faults, pipe_faults_to_mininet >>
vars == << cfgVars, ctlVars, injVars, pipes >>

Units == DOMAIN fate

\* the configuration is not looked into
BuilderIdle ==
  /\ filepath_to_config_file = NoneV
  /\ file_config = NoneV
  /\ config = NoneV
  /\ builds = << >>
  /\ mininet_agnostic_faultconfig = NoneV
  /\ injectors = << >>
  /\ bpc = "off"

\* no topology and no identifier under resolution
ResolverIdle ==
  /\ net = << << >>, << >> >>
  /\ reference = << >>
  /\ identifier_string = NoneV
  /\ resolved = << >>

\* nothing constructed yet: no process, no pipe traffic
ProtocolInit ==
  /\ ctlPc = "new"
  /\ faults_are_active = FALSE
  /\ logger_active = FALSE
  /\ atexit_hooks = 0
  /\ goCalls = 0
  /\ calls = 0
  /\ ret = FALSE
  /\ pipe_mininet_to_faults = << >>
  /\ pipe_faults_to_mininet = << >>
  /\ ctlSent = << >>
  /\ ctlRecvd = << >>
  /\ injPc = "unborn"
  /\ fault_logger = "None"
  /\ faults = << >>
  /\ log_task = "None"
  /\ log_stopped = FALSE
  /\ log_task_activator = "None"
  /\ injSent = << >>
  /\ injRecvd = << >>

\* the configurations: with or without a log section, 0..MaxFaults fault units
Init ==
  /\ ResolverIdle
  /\ BuilderIdle
  /\ config_has_log \in BOOLEAN
  /\ \E n \in 0..MaxFaults : fate \in [1..n -> Fates]
  /\ ProtocolInit

\* ------------------------------------------------------------- controller

\* Starter.__init__ up to fault_process.start(): flags set, pipes made,
\* injector process spawned; the constructor then blocks in recv_bytes()
StarterInit ==
  /\ ctlPc = "new"
  /\ ctlPc' = "start_recv"
  /\ faults_are_active' = FALSE
  /\ logger_active' = config_has_log
  /\ injPc' = "init"
  /\ UNCHANGED << cfgVars, atexit_hooks, goCalls, calls, ret, ctlSent, ctlRecvd,
                  fault_logger, faults, log_task, log_stopped,
                  log_task_activator, injSent, injRecvd, pipes >>

\* the constructor returning without the blocking receive
StarterRecvNoWait ==
  /\ ctlPc = "start_recv"
  /\ ctlPc' = "idle"
  /\ UNCHANGED << cfgVars, faults_are_active, logger_active, atexit_hooks,
                  goCalls, calls, ret, ctlSent, ctlRecvd, injVars, pipes >>

\* the constructor failing on a first message other than ready
StarterRecvStrict ==
  /\ ctlPc = "start_recv"
  /\ pipe_faults_to_mininet # << >>
  /\ ctlRecvd' = Append(ctlRecvd, Head(pipe_faults_to_mininet))
  /\ pipe_faults_to_mininet' = Tail(pipe_faults_to_mininet)
  /\ ctlPc' = IF Head(pipe_faults_to_mininet) = Encode(MESSAGE_SETUP_DONE)
                THEN "idle" ELSE "failed"
  /\ UNCHANGED << cfgVars, faults_are_active, logger_active, atexit_hooks,
                  goCalls, calls, ret, ctlSent, injVars,
                  pipe_mininet_to_faults >>

\* Starter.__init__ from recv_bytes() on: blocks until a message is there,
\* reads it, logs it, and returns whichever message it was
StarterRecv ==
  /\ ctlPc = "start_recv"
  /\ pipe_faults_to_mininet # << >>
  /\ ctlRecvd' = Append(ctlRecvd, Head(pipe_faults_to_mininet))
  /\ pipe_faults_to_mininet' = Tail(pipe_faults_to_mininet)
  /\ ctlPc' = "idle"
  /\ UNCHANGED << cfgVars, faults_are_active, logger_active, atexit_hooks,
                  goCalls, calls, ret, ctlSent, injVars,
                  pipe_mininet_to_faults >>

\* go() without the exit hook
StarterGoNoHook ==
  /\ ctlPc = "idle"
  /\ goCalls < MaxGo
  /\ goCalls' = goCalls + 1
  /\ faults_are_active' = TRUE
  /\ pipe_mininet_to_faults' =
       Append(pipe_mininet_to_faults, Encode(MESSAGE_START_INJECTING))
  /\ ctlSent' = Append(ctlSent, Encode(MESSAGE_START_INJECTING))
  /\ UNCHANGED << cfgVars, ctlPc, logger_active, atexit_hooks, calls, ret,
                  ctlRecvd, injVars, pipe_faults_to_mininet >>

\* Starter.go()
StarterGo ==
  /\ ctlPc = "idle"
  /\ goCalls < MaxGo
  /\ goCalls' = goCalls + 1
  /\ faults_are_active' = TRUE
  /\ pipe_mininet_to_faults' =
       Append(pipe_mininet_to_faults, Encode(MESSAGE_START_INJECTING))
  /\ ctlSent' = Append(ctlSent, Encode(MESSAGE_START_INJECTING))
  /\ atexit_hooks' = IF logger_active THEN atexit_hooks + 1 ELSE atexit_hooks
  /\ UNCHANGED << cfgVars, ctlPc, logger_active, calls, ret, ctlRecvd, injVars,
                  pipe_faults_to_mininet >>

\* is_active() reading done without clearing the active flag
StarterIsActiveKeepsFlag ==
  /\ ctlPc = "idle"
  /\ calls < MaxCalls
  /\ calls' = calls + 1
  /\ IF ~faults_are_active
       THEN /\ ret' = FALSE
            /\ UNCHANGED << ctlRecvd, pipe_faults_to_mininet >>
     ELSE IF pipe_faults_to_mininet = << >>
       THEN /\ ret' = TRUE
            /\ UNCHANGED << ctlRecvd, pipe_faults_to_mininet >>
     ELSE /\ ctlRecvd' = Append(ctlRecvd, Head(pipe_faults_to_mininet))
          /\ pipe_faults_to_mininet' = Tail(pipe_faults_to_mininet)
          /\ ret' = (Head(pipe_faults_to_mininet)
                       # Encode(MESSAGE_INJECTION_DONE))
  /\ UNCHANGED << cfgVars, ctlPc, faults_are_active, logger_active,
                  atexit_hooks, goCalls, ctlSent, injVars,
                  pipe_mininet_to_faults >>

\* is_active() receiving without polling first: it waits for a message
StarterIsActiveBlocking ==
  /\ ctlPc = "idle"
  /\ calls < MaxCalls
  /\ calls' = calls + 1
  /\ IF ~faults_are_active
       THEN /\ ret' = FALSE
            /\ UNCHANGED << faults_are_active, ctlRecvd, pipe_faults_to_mininet >>
     ELSE /\ pipe_faults_to_mininet # << >>
          /\ ctlRecvd' = Append(ctlRecvd, Head(pipe_faults_to_mininet))
          /\ pipe_faults_to_mininet' = Tail(pipe_faults_to_mininet)
          /\ IF Head(pipe_faults_to_mininet) = Encode(MESSAGE_INJECTION_DONE)
               THEN faults_are_active' = FALSE /\ ret' = FALSE
               ELSE faults_are_active' = faults_are_active /\ ret' = TRUE
  /\ UNCHANGED << cfgVars, ctlPc, logger_active, atexit_hooks, goCalls, ctlSent,
                  injVars, pipe_mininet_to_faults >>

\* Starter.is_active()
StarterIsActive ==
  /\ ctlPc = "idle"
  /\ calls < MaxCalls
  /\ calls' = calls + 1
  /\ IF ~faults_are_active
       THEN /\ ret' = FALSE
            /\ UNCHANGED << faults_are_active, ctlRecvd, pipe_faults_to_mininet >>
     ELSE IF pipe_faults_to_mininet = << >>
       THEN /\ ret' = TRUE
            /\ UNCHANGED << faults_are_active, ctlRecvd, pipe_faults_to_mininet >>
     ELSE /\ ctlRecvd' = Append(ctlRecvd, Head(pipe_faults_to_mininet))
          /\ pipe_faults_to_mininet' = Tail(pipe_faults_to_mininet)
          /\ IF Head(pipe_faults_to_mininet) = Encode(MESSAGE_INJECTION_DONE)
               THEN faults_are_active' = FALSE /\ ret' = FALSE
               ELSE faults_are_active' = faults_are_active /\ ret' = TRUE
  /\ UNCHANGED << cfgVars, ctlPc, logger_active, atexit_hooks, goCalls, ctlSent,
                  injVars, pipe_mininet_to_faults >>

\* the writes of n registered notify_to_write_to_logfile hooks
RECURSIVE WriteLogs(_)
WriteLogs(n) ==
  IF n = 0 THEN << >> ELSE <<Encode(MESSAGE_WRITE_LOGS)>> \o WriteLogs(n - 1)

\* normal exit of the controller process: every registered exit hook runs
ControllerExit ==
  /\ ctlPc = "idle"
  /\ ctlPc' = "exited"
  /\ pipe_mininet_to_faults' = pipe_mininet_to_faults \o WriteLogs(atexit_hooks)
  /\ ctlSent' = ctlSent \o WriteLogs(atexit_hooks)
  /\ UNCHANGED << cfgVars, faults_are_active, logger_active, atexit_hooks,
                  goCalls, calls, ret, ctlRecvd, injVars,
                  pipe_faults_to_mininet >>

\* --------------------------------------------------------------- injector

\* Controller.__init__ reporting a setup error in place of setup-done
ControllerInitSetupError ==
  /\ injPc = "init"
  /\ faults' = [u \in Units |-> "created"]
  /\ fault_logger' = IF config_has_log THEN "FaultLogger" ELSE "None"
  /\ pipe_faults_to_mininet' =
       Append(pipe_faults_to_mininet, Encode(MESSAGE_SETUP_ERROR))
  /\ injSent' = Append(injSent, Encode(MESSAGE_SETUP_ERROR))
  /\ injPc' = "wait_until_go"
  /\ UNCHANGED << cfgVars, ctlVars, log_task, log_stopped, log_task_activator,
                  injRecvd, pipe_mininet_to_faults >>

\* Controller.__init__ (run by entrypoint_for_fault_controller): the fault
\* units are built from the configuration, the logger is configured when
\* the configuration has a log section, and the setup-done message is sent
ControllerInit ==
  /\ injPc = "init"
  /\ faults' = [u \in Units |-> "created"]
  /\ fault_logger' = IF config_has_log THEN "FaultLogger" ELSE "None"
  /\ pipe_faults_to_mininet' =
       Append(pipe_faults_to_mininet, Encode(MESSAGE_SETUP_DONE))
  /\ injSent' = Append(injSent, Encode(MESSAGE_SETUP_DONE))
  /\ injPc' = "wait_until_go"
  /\ UNCHANGED << cfgVars, ctlVars, log_task, log_stopped, log_task_activator,
                  injRecvd, pipe_mininet_to_faults >>

\* wait_until_go() taking whatever message comes first for go
wait_until_go_any_message ==
  /\ injPc = "wait_until_go"
  /\ pipe_mininet_to_faults # << >>
  /\ injRecvd' = Append(injRecvd, Head(pipe_mininet_to_faults))
  /\ pipe_mininet_to_faults' = Tail(pipe_mininet_to_faults)
  /\ injPc' = "gather"
  /\ log_task' = IF fault_logger # "None" THEN "pending" ELSE "None"
  /\ log_task_activator' = IF fault_logger # "None" THEN "created" ELSE "None"
  /\ UNCHANGED << cfgVars, ctlVars, fault_logger, faults, log_stopped, injSent,
                  pipe_faults_to_mininet >>

\* wait_until_go() reading on until the go message comes
wait_until_go_retrying ==
  /\ injPc = "wait_until_go"
  /\ pipe_mininet_to_faults # << >>
  /\ injRecvd' = Append(injRecvd, Head(pipe_mininet_to_faults))
  /\ pipe_mininet_to_faults' = Tail(pipe_mininet_to_faults)
  /\ IF Head(pipe_mininet_to_faults) = Encode(MESSAGE_START_INJECTING)
       THEN /\ injPc' = "gather"
            /\ log_task' = IF fault_logger # "None" THEN "pending" ELSE "None"
            /\ log_task_activator' =
                 IF fault_logger # "None" THEN "created" ELSE "None"
       ELSE /\ injPc' = "wait_until_go"
            /\ UNCHANGED << log_task, log_task_activator >>
  /\ UNCHANGED << cfgVars, ctlVars, fault_logger, faults, log_stopped, injSent,
                  pipe_faults_to_mininet >>

\* wait_until_go(): blocking receive; on the go message asyncio.run(go())
\* starts and go() runs up to its await of gather: the fault coroutines and
\* the logger task are created, the listener coroutine object is created
\* (it is not made a task). Any other message: wait_until_go returns and
\* the process ends.
wait_until_go ==
  /\ injPc = "wait_until_go"
  /\ pipe_mininet_to_faults # << >>
  /\ injRecvd' = Append(injRecvd, Head(pipe_mininet_to_faults))
  /\ pipe_mininet_to_faults' = Tail(pipe_mininet_to_faults)
  /\ IF Head(pipe_mininet_to_faults) = Encode(MESSAGE_START_INJECTING)
       THEN /\ injPc' = "gather"
            /\ log_task' = IF fault_logger # "None" THEN "pending" ELSE "None"
            /\ log_task_activator' =
                 IF fault_logger # "None" THEN "created" ELSE "None"
       ELSE /\ injPc' = "exited"
            /\ UNCHANGED << log_task, log_task_activator >>
  /\ UNCHANGED << cfgVars, ctlVars, fault_logger, faults, log_stopped, injSent,
                  pipe_faults_to_mininet >>

\* go() is suspended at an await that gave control to the event loop:
\* gather over at least one unit (gather of nothing is complete at once and
\* the await does not suspend), or the await of the logger task
LoopRuns ==
  \/ injPc = "gather" /\ Units # {}
  \/ injPc = "await_log_task"

\* the event loop starts a fault unit's go()
UnitStart(u) ==
  /\ injPc = "gather"
  /\ faults[u] = "created"
  /\ faults' = [faults EXCEPT ![u] = "running"]
  /\ UNCHANGED << cfgVars, ctlVars, injPc, fault_logger, log_task, log_stopped,
                  log_task_activator, injSent, injRecvd, pipes >>

\* a fault unit's go() returns
UnitComplete(u) ==
  /\ injPc = "gather"
  /\ faults[u] = "running"
  /\ fate[u] = "completes"
  /\ faults' = [faults EXCEPT ![u] = "done"]
  /\ UNCHANGED << cfgVars, ctlVars, injPc, fault_logger, log_task, log_stopped,
                  log_task_activator, injSent, injRecvd, pipes >>

\* a fault unit's go() raises
UnitFail(u) ==
  /\ injPc = "gather"
  /\ faults[u] = "running"
  /\ fate[u] = "fails"
  /\ faults' = [faults EXCEPT ![u] = "failed"]
  /\ UNCHANGED << cfgVars, ctlVars, injPc, fault_logger, log_task, log_stopped,
                  log_task_activator, injSent, injRecvd, pipes >>

\* await asyncio.gather(...) raises the exception of a failed unit: go()
\* and asyncio.run() end with it, the remaining tasks are cancelled and the
\* process ends by the exception
GatherRaises ==
  /\ injPc = "gather"
  /\ \E u \in Units : faults[u] = "failed"
  /\ injPc' = "crashed"
  /\ faults' = [u \in Units |->
                  IF faults[u] \in {"created", "running"} THEN "cancelled"
                  ELSE faults[u]]
  /\ log_task' = IF log_task \in {"pending", "running"} THEN "cancelled"
                 ELSE log_task
  /\ UNCHANGED << cfgVars, ctlVars, fault_logger, log_stopped,
                  log_task_activator, injSent, injRecvd, pipes >>

\* gather returning as soon as one unit's go() has returned
GatherDoneFirstCompleted ==
  /\ injPc = "gather"
  /\ \/ Units = {}
     \/ \E u \in Units : faults[u] = "done"
  /\ pipe_faults_to_mininet' =
       Append(pipe_faults_to_mininet, Encode(MESSAGE_INJECTION_DONE))
  /\ injSent' = Append(injSent, Encode(MESSAGE_INJECTION_DONE))
  /\ injPc' = IF fault_logger # "None" THEN "stop_logger" ELSE "exited"
  /\ UNCHANGED << cfgVars, ctlVars, fault_logger, faults, log_task, log_stopped,
                  log_task_activator, injRecvd, pipe_mininet_to_faults >>

\* go() sending done only once the logger task has ended
GatherDoneAfterLogger ==
  /\ injPc = "gather"
  /\ \A u \in Units : faults[u] = "done"
  /\ fault_logger # "None" => log_task = "done"
  /\ pipe_faults_to_mininet' =
       Append(pipe_faults_to_mininet, Encode(MESSAGE_INJECTION_DONE))
  /\ injSent' = Append(injSent, Encode(MESSAGE_INJECTION_DONE))
  /\ injPc' = IF fault_logger # "None" THEN "stop_logger" ELSE "exited"
  /\ UNCHANGED << cfgVars, ctlVars, fault_logger, faults, log_task, log_stopped,
                  log_task_activator, injRecvd, pipe_mininet_to_faults >>

\* go() stopping the logger first and leaving the done message for the end
GatherDoneStopFirst ==
  /\ injPc = "gather"
  /\ \A u \in Units : faults[u] = "done"
  /\ log_stopped' = (fault_logger # "None")
  /\ injPc' = IF fault_logger # "None" THEN "await_log_task" ELSE "exited"
  /\ UNCHANGED << cfgVars, ctlVars, fault_logger, faults, log_task,
                  log_task_activator, injSent, injRecvd, pipes >>

\* go() sending the done message only once write-logs is there to be read
GatherDoneAfterWriteLogs ==
  /\ injPc = "gather"
  /\ \A u \in Units : faults[u] = "done"
  /\ pipe_mininet_to_faults # << >>
  /\ Head(pipe_mininet_to_faults) = Encode(MESSAGE_WRITE_LOGS)
  /\ pipe_faults_to_mininet' =
       Append(pipe_faults_to_mininet, Encode(MESSAGE_INJECTION_DONE))
  /\ injSent' = Append(injSent, Encode(MESSAGE_INJECTION_DONE))
  /\ injPc' = IF fault_logger # "None" THEN "stop_logger" ELSE "exited"
  /\ UNCHANGED << cfgVars, ctlVars, fault_logger, faults, log_task, log_stopped,
                  log_task_activator, injRecvd, pipe_mininet_to_faults >>

\* await asyncio.gather(...) returns once every unit's go() has returned;
\* go() then sends the done message
GatherDone ==
  /\ injPc = "gather"
  /\ \A u \in Units : faults[u] = "done"
  /\ pipe_faults_to_mininet' =
       Append(pipe_faults_to_mininet, Encode(MESSAGE_INJECTION_DONE))
  /\ injSent' = Append(injSent, Encode(MESSAGE_INJECTION_DONE))
  /\ injPc' = IF fault_logger # "None" THEN "stop_logger" ELSE "exited"
  /\ UNCHANGED << cfgVars, ctlVars, fault_logger, faults, log_task, log_stopped,
                  log_task_activator, injRecvd, pipe_mininet_to_faults >>

\* go(): self.fault_logger.stop(), then await log_task
StopLogger ==
  /\ injPc = "stop_logger"
  /\ log_stopped' = TRUE
  /\ injPc' = "await_log_task"
  /\ UNCHANGED << cfgVars, ctlVars, fault_logger, faults, log_task,
                  log_task_activator, injSent, injRecvd, pipes >>

\* go() returning after the logger task without awaiting the listener
AwaitLogTaskNoListen ==
  /\ injPc = "await_log_task"
  /\ log_task = "done"
  /\ injPc' = "exited"
  /\ UNCHANGED << cfgVars, ctlVars, fault_logger, faults, log_task, log_stopped,
                  log_task_activator, injSent, injRecvd, pipes >>

\* go(): await log_task returns, and await log_task_activator starts to run
\* listen_for_log_write() inside go()
AwaitLogTask ==
  /\ injPc = "await_log_task"
  /\ log_task = "done"
  /\ injPc' = "listen"
  /\ log_task_activator' = "running"
  /\ UNCHANGED << cfgVars, ctlVars, fault_logger, faults, log_task, log_stopped,
                  injSent, injRecvd, pipes >>

\* listen_for_log_write(): the poll loop ends when a message is pending (an
\* iteration that finds none changes nothing and does not suspend); the
\* message is read, the logger stopped if it is write-logs; go() returns,
\* wait_until_go returns and the process ends
listen_for_log_write ==
  /\ injPc = "listen"
  /\ log_task_activator = "running"
  /\ pipe_mininet_to_faults # << >>
  /\ injRecvd' = Append(injRecvd, Head(pipe_mininet_to_faults))
  /\ pipe_mininet_to_faults' = Tail(pipe_mininet_to_faults)
  /\ log_stopped' =
       IF Head(pipe_mininet_to_faults) = Encode(MESSAGE_WRITE_LOGS)
            /\ fault_logger # "None"
         THEN TRUE ELSE log_stopped
  /\ log_task_activator' = "done"
  /\ injPc' = "exited"
  /\ UNCHANGED << cfgVars, ctlVars, fault_logger, faults, log_task, injSent,
                  pipe_faults_to_mininet >>

\* ----------------------------------------------------------------- logger

\* the event loop starts the logger task (fault_logger.go())
LogTaskStart ==
  /\ LoopRuns
  /\ log_task = "pending"
  /\ log_task' = "running"
  /\ UNCHANGED << cfgVars, ctlVars, injPc, fault_logger, faults, log_stopped,
                  log_task_activator, injSent, injRecvd, pipes >>

\* fault_logger.go() returns: after stop(), or by itself when the logger
\* runs its commands once
LogTaskFinish ==
  /\ LoopRuns
  /\ log_task = "running"
  /\ log_task' = "done"
  /\ UNCHANGED << cfgVars, ctlVars, injPc, fault_logger, faults, log_stopped,
                  log_task_activator, injSent, injRecvd, pipes >>

\* ---------------------------------------------------------- specifications

Next ==
  \/ StarterInit
  \/ StarterRecv
  \/ StarterGo
  \/ StarterIsActive
  \/ ControllerExit
  \/ ControllerInit
  \/ wait_until_go
  \/ \E u \in Units : UnitStart(u)
  \/ \E u \in Units : UnitComplete(u)
  \/ \E u \in Units : UnitFail(u)
  \/ GatherRaises
  \/ GatherDone
  \/ StopLogger
  \/ AwaitLogTask
  \/ listen_for_log_write
  \/ LogTaskStart
  \/ LogTaskFinish

Spec == Init /\ [][Next]_vars

\* Scheduling: a process that can take a step takes it. The injector
\* process runs whenever it is not blocked on a pipe; its event loop runs
\* every task that is ready; a unit whose go() completes or raises does so
\* in the end; the logger task ends once the logger was stopped; the
\* controller's blocked receive returns once a message is there. The
\* caller's calls (go, is_active, exit) are under no obligation.
Fairness ==
  /\ WF_vars(StarterRecv)
  /\ WF_vars(ControllerInit)
  /\ WF_vars(wait_until_go)
  /\ WF_vars(\E u \in Units : UnitStart(u))
  /\ WF_vars(\E u \in Units : UnitComplete(u))
  /\ WF_vars(\E u \in Units : UnitFail(u))
  /\ WF_vars(GatherRaises)
  /\ WF_vars(GatherDone)
  /\ WF_vars(StopLogger)
  /\ WF_vars(AwaitLogTask)
  /\ WF_vars(listen_for_log_write)
  /\ WF_vars(LogTaskStart)
  /\ WF_vars(log_stopped /\ LogTaskFinish)

LiveSpec == Init /\ [][Next]_vars /\ Fairness

\* The constructor against an arbitrary peer: in place of the injector's
\* own first message, the process at the other end of the pipe writes any
\* token m as its first message
PeerFirstMessage(m) ==
  /\ injPc = "init"
  /\ pipe_faults_to_mininet' = Append(pipe_faults_to_mininet, Encode(m))
  /\ injSent' = Append(injSent, Encode(m))
  /\ injPc' = "peer"
  /\ UNCHANGED << cfgVars, ctlVars, fault_logger, faults, log_task, log_stopped,
                  log_task_activator, injRecvd, pipe_mininet_to_faults >>

NextPeer ==
  \/ StarterInit
  \/ \E m \in Tokens : PeerFirstMessage(m)
  \/ StarterRecv
  \/ StarterGo
  \/ StarterIsActive
  \/ ControllerExit

SpecPeer == Init /\ [][NextPeer]_vars

\* a step of the injector process (its own code or a task of its event loop)
InjectorStep ==
  \/ ControllerInit
  \/ wait_until_go
  \/ \E u \in Units : UnitStart(u)
  \/ \E u \in Units : UnitComplete(u)
  \/ \E u \in Units : UnitFail(u)
  \/ GatherRaises
  \/ GatherDone
  \/ StopLogger
  \/ AwaitLogTask
  \/ listen_for_log_write
  \/ LogTaskStart
  \/ LogTaskFinish

\* a call of the controller's public surface, or its exit
StarterCall ==
  \/ StarterRecv
  \/ StarterGo
  \/ StarterIsActive
  \/ ControllerExit

\* Both processes against arbitrary payloads on the wire: the holder of the
\* controller->injector send end writes any token m (every process holds
\* every pipe end, lines 42-50), in place of the caller's go() and exit
PeerWrites(m) ==
  /\ injPc # "unborn"
  /\ Len(pipe_mininet_to_faults) + Len(injRecvd) < MaxWire
  /\ pipe_mininet_to_faults' = Append(pipe_mininet_to_faults, Encode(m))
  /\ UNCHANGED << cfgVars, ctlVars, injVars, pipe_faults_to_mininet >>

NextWire ==
  \/ StarterInit
  \/ \E m \in Tokens : PeerFirstMessage(m)
  \/ StarterRecv
  \/ \E m \in Tokens : PeerWrites(m)
  \/ InjectorStep

SpecWire == Init /\ [][NextWire]_vars

\* The program with a second writer on the controller->injector pipe: the
\* send end is a public attribute of the Starter and
\* notify_to_write_to_logfile(pipe) is a public function, so the caller's
\* code can write write-logs, or any token but go, at any time; go itself
\* is written by go() only. is_active(), which reads the other pipe, is
\* left out.
StrayTokens == Tokens \ { MESSAGE_START_INJECTING }

NextStray ==
  \/ StarterInit
  \/ StarterRecv
  \/ StarterGo
  \/ ControllerExit
  \/ \E m \in StrayTokens : PeerWrites(m)
  \/ InjectorStep

SpecStray == Init /\ [][NextStray]_vars

\* ------------------------------------------------ resolving one identifier

name_h1 == << "h", "1" >>
name_h2 == << "h", "2" >>
name_h3 == << "h", "3" >>
name_s1 == << "s", "1" >>
name_e0 == << "e", "0" >>
name_e1 == << "e", "1" >>
name_x0 == << "x", "0" >>
name_x1 == << "x", "1" >>
name_p0 == << "p", "0" >>
\* Mininet's default interface names: <node>-eth<n>
name_h1_eth0 == << "h", "1", "-", "e", "t", "h", "0" >>
name_h2_eth0 == << "h", "2", "-", "e", "t", "h", "0" >>

node_h1 == << name_h1, IntV(11) >>
node_h2 == << name_h2, IntV(12) >>
node_s1 == << name_s1, IntV(13) >>

Link(n1, i1, n2, i2) == << << n1, i1 >>, << n2, i2 >> >>

\* the links topologies are made of: parallel links between h1 and h2 in
\* both orientations, one with default interface names, one to a switch
LinkPool ==
  { Link(node_h1, name_e0, node_h2, name_x0),
    Link(node_h1, name_e1, node_h2, name_x1),
    Link(node_h2, name_x0, node_h1, name_e1),
    Link(node_h1, name_h1_eth0, node_h2, name_h2_eth0),
    Link(node_h1, name_e0, node_s1, name_p0) }

SeqsUpTo(S, n) == UNION { [1..k -> S] : k \in 0..n }

\* net.hosts holds the hosts, not the switches
Nets ==
  { << hosts, links >> :
      hosts \in { << node_h1, node_h2 >>, << node_h2 >> },
      links \in SeqsUpTo(LinkPool, MaxLinks) }

\* an identifier by its parts: <<"node", h>>, <<"implicit", a, b>> or
\* <<"explicit", a, b, i>>
References ==
  { << "node", h >> : h \in { name_h1, name_h3, name_s1 } }
    \cup
  { << "implicit", ab[1], ab[2] >> :
      ab \in { << name_h1, name_h2 >>, << name_h2, name_h1 >>,
               << name_h1, name_s1 >>, << name_h3, name_h2 >> } }
    \cup
  { << "explicit", ab[1], ab[2], i >> :
      ab \in { << name_h1, name_h2 >>, << name_h2, name_h1 >>,
               << name_h1, name_s1 >>, << name_h3, name_h2 >> },
      i \in { name_e0, name_e1, name_x0, name_h1_eth0 } }

\* the identifier as it is written: "h", "a->b", "a->b:i"
Written(r) ==
  IF r[1] = "node" THEN r[2]
  ELSE IF r[1] = "implicit" THEN r[2] \o << "-", ">" >> \o r[3]
  ELSE r[2] \o << "-", ">" >> \o r[3] \o << ":" >> \o r[4]

InitResolve ==
  /\ net \in Nets
  /\ reference \in References
  /\ identifier_string = Written(reference)
  /\ resolved = << >>
  /\ BuilderIdle
  /\ config_has_log = FALSE
  /\ fate = << >>
  /\ ProtocolInit

\* one call of _get_mininet_agnostic_identifiers_from_identifier_string
Resolve ==
  /\ resolved = << >>
  /\ resolved' = get_mininet_agnostic_identifiers_from_identifier_string(
                   net, identifier_string)
  /\ UNCHANGED << net, reference, identifier_string, buildVars,
                  config_has_log, fate, ctlVars, injVars, pipes >>

SpecResolve == InitResolve /\ [][Resolve]_vars

\* --------------------------------------------- building the configuration

tag_t == << "t" >>
tag_r == << "r" >>
path_f == << "f", ".", "y", "m", "l" >>

FaultObject(key, type, identifiers, tag, type_args, target_traffic) ==
  [key |-> key, type |-> type, identifiers |-> identifiers, tag |-> tag,
   type_args |-> type_args, target_traffic |-> target_traffic]

id_h1_h2 == Written(<< "implicit", name_h1, name_h2 >>)
id_h2_h1 == Written(<< "implicit", name_h2, name_h1 >>)
id_h3_h2 == Written(<< "implicit", name_h3, name_h2 >>)
id_h1_h2_e0 == Written(<< "explicit", name_h1, name_h2, name_e0 >>)

\* the fault entries configurations are made of: link and node faults with
\* and without tag, resolvable and unresolvable identifiers, an identifier
\* named twice, known and unknown protocols, and entries without type, with
\* a type that is none, and redirect entries with and without type_args
FaultObjects ==
  { FaultObject("link_fault", type_link_delay, << id_h1_h2 >>, tag_t,
                NoneV, NoneV),
    FaultObject("link_fault", type_link_delay, << id_h1_h2_e0, id_h3_h2 >>,
                NoneV, NoneV, << "traffic", protocol_TCP >>),
    FaultObject("link_fault", type_link_delay, << name_h1, name_h1 >>, tag_t,
                NoneV, << "traffic", protocol_SCTP >>),
    FaultObject("node_fault", type_node_stop, << name_h1, name_h3 >>, tag_r,
                NoneV, NoneV),
    FaultObject("node_fault", type_node_stop, << id_h1_h2 >>, NoneV,
                NoneV, NoneV),
    FaultObject("link_fault", NoneV, << id_h1_h2 >>, tag_t, NoneV, NoneV),
    FaultObject("link_fault", type_bogus, << name_h1 >>, NoneV, NoneV, NoneV),
    FaultObject("link_fault", type_link_redirect, << id_h2_h1 >>, tag_r,
                List(<< id_h1_h2 >>), NoneV),
    FaultObject("link_fault", type_link_redirect, << id_h1_h2 >>, tag_r,
                NoneV, NoneV),
    FaultObject("link_fault", type_link_delay, << >>, tag_t, NoneV, NoneV) }

\* the log sections: none, one without commands, one with a command on h1
LogConfigs ==
  { NoneV, << "log", NoneV >>, << "log", List(<< << NoneV, name_h1 >> >>) >> }

Configs ==
  { << fault_objects, log_config >> :
      fault_objects \in SeqsUpTo(FaultObjects, MaxFaults),
      log_config \in LogConfigs }

BuildNets ==
  { << << node_h1, node_h2 >>, links >> :
      links \in { << Link(node_h1, name_e0, node_h2, name_x0) >>,
                  << Link(node_h1, name_e0, node_h2, name_x0),
                     Link(node_h2, name_x1, node_h1, name_e1) >> } }

InitBuild ==
  /\ net \in BuildNets
  /\ reference = << >>
  /\ identifier_string = NoneV
  /\ resolved = << >>
  /\ filepath_to_config_file \in { NoneV, path_f }
  /\ file_config \in Configs
  /\ config = NoneV
  /\ builds = << >>
  /\ mininet_agnostic_faultconfig = NoneV
  /\ injectors = << >>
  /\ bpc = "load"
  /\ config_has_log = (ConfigLog(file_config) # NoneV)
  /\ fate = << >>
  /\ ProtocolInit

\* Starter.__init__, line 32: _get_base_config_dict
StarterLoad ==
  /\ bpc = "load"
  /\ config' = IF filepath_to_config_file = NoneV THEN NoneV ELSE file_config
  /\ bpc' = "build"
  /\ UNCHANGED << filepath_to_config_file, file_config, builds,
                  mininet_agnostic_faultconfig, injectors, resVars,
                  config_has_log, fate, ctlVars, injVars, pipes >>

\* Starter.__init__, line 33: the build rewrites config in place; an
\* exception ends the constructor
StarterBuild ==
  /\ bpc = "build"
  /\ \E r \in { build_yml_with_mininet_agnostic_identifiers(net, config) } :
       /\ builds' = Append(builds, << config, r[1], r[2] >>)
       /\ config' = r[2]
       /\ bpc' = IF r[1] = "ok" THEN "start" ELSE "raised"
  /\ UNCHANGED << filepath_to_config_file, file_config,
                  mininet_agnostic_faultconfig, injectors, resVars,
                  config_has_log, fate, ctlVars, injVars, pipes >>

\* Starter.__init__, lines 35-45: the injector process gets the built
\* configuration, the constructor then blocks in recv_bytes()
StarterStart ==
  /\ bpc = "start"
  /\ bpc' = "started"
  /\ logger_active' = (ConfigLog(config) # NoneV)
  /\ faults_are_active' = FALSE
  /\ mininet_agnostic_faultconfig' = config
  /\ ctlPc' = "start_recv"
  /\ injPc' = "init"
  /\ UNCHANGED << filepath_to_config_file, file_config, config, builds,
                  injectors, resVars, config_has_log, fate, atexit_hooks,
                  goCalls, calls, ret, ctlSent, ctlRecvd, fault_logger,
                  faults, log_task, log_stopped, log_task_activator, injSent,
                  injRecvd, pipes >>

\* Controller.__init__ on the configuration it was given: _configByFile,
\* _config_logger, then the setup-done message
ControllerConfigure ==
  /\ injPc = "init"
  /\ bpc = "started"
  /\ injectors' = configByFile(mininet_agnostic_faultconfig)
  /\ faults' = [u \in DOMAIN injectors' |-> "created"]
  /\ fault_logger' =
       IF ConfigLog(mininet_agnostic_faultconfig) = NoneV THEN "None"
       ELSE "FaultLogger"
  /\ pipe_faults_to_mininet' =
       Append(pipe_faults_to_mininet, Encode(MESSAGE_SETUP_DONE))
  /\ injSent' = Append(injSent, Encode(MESSAGE_SETUP_DONE))
  /\ injPc' = "wait_until_go"
  /\ UNCHANGED << filepath_to_config_file, file_config, config, builds,
                  mininet_agnostic_faultconfig, bpc, resVars, config_has_log,
                  fate, ctlVars, log_task, log_stopped, log_task_activator,
                  injRecvd, pipe_mininet_to_faults >>

\* a second call of the build on the Starter's configuration and topology
StarterBuildAgain ==
  /\ bpc = "started"
  /\ Len(builds) = 1
  /\ \E r \in { build_yml_with_mininet_agnostic_identifiers(net, config) } :
       /\ builds' = Append(builds, << config, r[1], r[2] >>)
       /\ config' = r[2]
  /\ UNCHANGED << filepath_to_config_file, file_config,
                  mininet_agnostic_faultconfig, injectors, bpc, resVars,
                  config_has_log, fate, ctlVars, injVars, pipes >>

NextBuild ==
  \/ StarterLoad
  \/ StarterBuild
  \/ StarterStart
  \/ ControllerConfigure
  \/ StarterRecv
  \/ StarterBuildAgain

SpecBuild == InitBuild /\ [][NextBuild]_vars

\* ------------------------------------------------------------------ claims

GoSent == Encode(MESSAGE_START_INJECTING) \in Range(ctlSent)
DoneSent == Encode(MESSAGE_INJECTION_DONE) \in Range(injSent)
DoneObserved == Encode(MESSAGE_INJECTION_DONE) \in Range(ctlRecvd)

\* C1: a go message is written to the controller->injector pipe only after
\* the constructor has returned, and the constructor returns only after it
\* has received the injector's first message, which is ready
C1_GoOnlyAfterReady ==
  ctlSent # << >> =>
    /\ ctlPc \in {"idle", "exited"}
    /\ ctlRecvd # << >>
    /\ ctlRecvd[1] = Encode(MESSAGE_SETUP_DONE)

C1_Witness ==
  /\ GoSent
  /\ ctlRecvd[1] = Encode(MESSAGE_SETUP_DONE)

\* C2: done is sent only in a state where every fault unit's go() has
\* returned; when some unit hangs or fails, done is never sent, even when
\* all the other units have completed
C2_DoneOnlyAfterAllUnits ==
  /\ DoneSent => \A u \in Units : faults[u] = "done"
  /\ (\E u \in Units : fate[u] # "completes") => ~DoneSent

C2_Witness ==
  /\ injPc = "gather"
  /\ Cardinality(Units) >= 2
  /\ \E u \in Units :
       /\ fate[u] = "hangs"
       /\ faults[u] = "running"
       /\ \A v \in Units \ {u} : faults[v] = "done"
  /\ ~DoneSent

\* C3 as claimed: when a logger is configured, the controller has observed
\* done (an is_active() call consumed it) before the injector stops the
\* logger
C3_DoneObservedBeforeLoggerStop ==
  (fault_logger # "None" /\ log_stopped) => DoneObserved

\* C3 as amended: when a logger is configured, the injector has sent done
\* before it stops the logger and awaits its task
C3_DoneSentBeforeLoggerStop ==
  (fault_logger # "None"
     /\ (log_stopped \/ injPc \in {"await_log_task", "listen"}))
  => DoneSent

C3_Witness ==
  /\ fault_logger # "None"
  /\ log_stopped
  /\ DoneSent
  /\ ~DoneObserved

\* a step that is an is_active() call
IsActiveCall == calls' = calls + 1

DonePending ==
  /\ pipe_faults_to_mininet # << >>
  /\ Head(pipe_faults_to_mininet) = Encode(MESSAGE_INJECTION_DONE)

\* C4: is_active() returns false before go() was called; after go() was
\* called every call returns true until a call finds done pending, and that
\* call consumes done, sets the controller inactive and returns false
C4_IsActiveContract ==
  [][ IsActiveCall =>
        /\ goCalls = 0 =>
             /\ ret' = FALSE
             /\ UNCHANGED << faults_are_active, pipe_faults_to_mininet >>
        /\ (goCalls > 0 /\ ~DoneObserved /\ ~DonePending) =>
             /\ ret' = TRUE
             /\ faults_are_active' = TRUE
        /\ (goCalls > 0 /\ DonePending) =>
             /\ ret' = FALSE
             /\ faults_are_active' = FALSE
             /\ pipe_faults_to_mininet' = Tail(pipe_faults_to_mininet)
             /\ ctlRecvd' = Append(ctlRecvd, Encode(MESSAGE_INJECTION_DONE))
    ]_vars

C4_Witness ==
  /\ goCalls > 0
  /\ calls >= 2
  /\ DoneObserved
  /\ ret = FALSE
  /\ ~faults_are_active

\* C5 as claimed: is_active() receives only when a message is pending, and
\* a call that finds no message pending returns true and leaves the pipe
\* and the active flag unchanged
C5_NoMessageReturnsTrue ==
  [][ (IsActiveCall /\ pipe_faults_to_mininet = << >>) =>
        /\ ret' = TRUE
        /\ UNCHANGED << pipe_faults_to_mininet, faults_are_active >>
    ]_vars

\* C5 as amended: is_active() never waits; it receives only when a message
\* is pending, and a call that finds no message pending returns the active
\* flag (true after go() until done was consumed, false otherwise) and
\* leaves the pipe and the active flag unchanged
C5_IsActiveNeverBlocks ==
  /\ []((ctlPc = "idle" /\ calls < MaxCalls) => ENABLED StarterIsActive)
  /\ [][ IsActiveCall =>
           /\ ctlRecvd' # ctlRecvd => pipe_faults_to_mininet # << >>
           /\ pipe_faults_to_mininet = << >> =>
                /\ ret' = faults_are_active
                /\ UNCHANGED << pipe_faults_to_mininet, faults_are_active,
                                ctlRecvd >>
       ]_vars

C5_Witness ==
  /\ goCalls > 0
  /\ calls > 0
  /\ ret = TRUE
  /\ faults_are_active
  /\ pipe_faults_to_mininet = << >>
  /\ ~DoneSent

\* C6: with no fault unit the injector sends ready, then waits for go, and
\* after receiving go sends done without waiting for anything else; done
\* is sent once and only after go
C6_ZeroFaults ==
  Units = {} =>
    /\ injPc \notin {"unborn", "init"} =>
         /\ injSent # << >>
         /\ injSent[1] = Encode(MESSAGE_SETUP_DONE)
    /\ injPc = "wait_until_go" =>
         /\ injSent = << Encode(MESSAGE_SETUP_DONE) >>
         /\ injRecvd = << >>
    /\ injPc = "gather" =>
         /\ ENABLED GatherDone
         /\ ~ENABLED (LogTaskStart \/ LogTaskFinish)
         /\ ~DoneSent
    /\ DoneSent =>
         /\ injSent = << Encode(MESSAGE_SETUP_DONE),
                         Encode(MESSAGE_INJECTION_DONE) >>
         /\ injRecvd # << >>
         /\ injRecvd[1] = Encode(MESSAGE_START_INJECTING)

C6_Witness ==
  /\ Units = {}
  /\ DoneSent
  /\ fault_logger # "None"
  /\ log_task = "pending"

AllComplete == \A u \in Units : fate[u] = "completes"

ExitedAfterGo ==
  /\ config_has_log
  /\ goCalls > 0
  /\ ctlPc = "exited"

\* C7: if logging is configured, go() was called, every fault unit
\* completes and the controller exits normally, then the exit hook has sent
\* write-logs and the injector process terminates in the end, whether the
\* controller exits before or after the units have finished
C7_InjectorTerminates ==
  /\ [](ExitedAfterGo => Encode(MESSAGE_WRITE_LOGS) \in Range(ctlSent))
  /\ (ExitedAfterGo /\ AllComplete) ~> (injPc = "exited")

C7_Witness ==
  /\ ExitedAfterGo
  /\ Units # {}
  /\ ~DoneObserved
  /\ injPc = "exited"
  /\ injRecvd = << Encode(MESSAGE_START_INJECTING), Encode(MESSAGE_WRITE_LOGS) >>

\* C8 as claimed: with a logger, the write-logs listener runs concurrently
\* with the fault units: while units are still running and done is not yet
\* sent, it can consume a write-logs message pending on the
\* controller->injector pipe
C8_ListenerConcurrentWithUnits ==
  ( /\ fault_logger # "None"
    /\ injPc = "gather"
    /\ \E u \in Units : faults[u] = "running"
    /\ pipe_mininet_to_faults # << >>
    /\ Head(pipe_mininet_to_faults) = Encode(MESSAGE_WRITE_LOGS) )
  => ENABLED listen_for_log_write

\* C9 as claimed: with or without a logging section, the injector process
\* ends only after every fault unit has finished and a write-logs message
\* has arrived
C9_EndsOnlyAfterWriteLogs ==
  injPc = "exited" =>
    /\ \A u \in Units : faults[u] = "done"
    /\ Encode(MESSAGE_WRITE_LOGS) \in Range(injRecvd)

\* C9 as amended: the injector process ends normally only after go was
\* received, every fault unit has finished and done was sent; with a
\* logging section, only after the logger task has ended and the listener
\* has then read one more message from the controller, which is write-logs
\* unless go() was called again (then it may be the repeated go); without a
\* logging section it ends right after sending done, with no write-logs
C9_EndsOnlyAfterUnitsAndListener ==
  injPc = "exited" =>
    /\ \A u \in Units : faults[u] = "done"
    /\ DoneSent
    /\ injRecvd # << >>
    /\ injRecvd[1] = Encode(MESSAGE_START_INJECTING)
    /\ fault_logger = "None" => injRecvd = << Encode(MESSAGE_START_INJECTING) >>
    /\ fault_logger # "None" =>
         /\ log_task = "done"
         /\ log_task_activator = "done"
         /\ Len(injRecvd) = 2
         /\ injRecvd[2] \in { Encode(MESSAGE_WRITE_LOGS),
                              Encode(MESSAGE_START_INJECTING) }
         /\ goCalls = 1 => injRecvd[2] = Encode(MESSAGE_WRITE_LOGS)

C9_Witness ==
  /\ injPc = "exited"
  /\ Units # {}
  /\ fault_logger = "None"
  /\ ctlPc = "idle"
  /\ pipe_mininet_to_faults = << >>

\* C10: whichever message the constructor receives first (ready,
\* setup-error or any other token), it returns normally with the same
\* controller state (inactive, logger flag as the configuration says, no
\* exit hook, nothing sent), and go() is callable afterwards
C10_AnyFirstMessageAccepted ==
  /\ (ctlPc = "start_recv" /\ pipe_faults_to_mininet # << >>)
       => ENABLED StarterRecv
  /\ ctlRecvd # << >> => ctlPc \in {"idle", "exited"}
  /\ ctlPc \in {"idle", "exited"} =>
       /\ ctlRecvd # << >>
       /\ ctlRecvd[1] \in { Encode(m) : m \in Tokens }
       /\ logger_active = config_has_log
  /\ (ctlPc = "idle" /\ goCalls = 0) =>
       /\ ~faults_are_active
       /\ atexit_hooks = 0
       /\ ctlSent = << >>
       /\ ENABLED StarterGo

C10_Witness ==
  /\ ctlPc = "idle"
  /\ ctlRecvd[1] = Encode(MESSAGE_SETUP_ERROR)
  /\ GoSent
  /\ faults_are_active

\* C11 as claimed: a side that waits for a protocol message stays blocked
\* when a different message arrives: the constructor goes on only on
\* ready, the injector leaves wait_until_go only on go, and the listener
\* returns only on write-logs
C11_WrongMessageBlocks ==
  /\ ctlPc \in {"idle", "exited"} => ctlRecvd[1] = Encode(MESSAGE_SETUP_DONE)
  /\ injRecvd # << >> => injRecvd[1] = Encode(MESSAGE_START_INJECTING)
  /\ Len(injRecvd) >= 2 => injRecvd[2] = Encode(MESSAGE_WRITE_LOGS)

\* C11 as amended: there is no retry and no timeout: a waiting side stays
\* blocked, neither proceeding nor exiting, as long as no message arrives;
\* any message that arrives ends the wait: the constructor returns as on
\* ready, the injector that reads something other than go ends without
\* running a fault unit or sending done, and the listener returns on any
\* message so that the injector ends
C11_BlockedOnlyWhileMissing ==
  /\ ctlPc = "start_recv" =>
       /\ ~ENABLED (StarterGo \/ StarterIsActive \/ ControllerExit)
       /\ ENABLED StarterRecv <=> pipe_faults_to_mininet # << >>
  /\ injPc \in {"wait_until_go", "listen"} =>
       ENABLED InjectorStep <=> pipe_mininet_to_faults # << >>
  /\ ctlRecvd # << >> => ctlPc = "idle"
  /\ (injRecvd # << >> /\ injRecvd[1] # Encode(MESSAGE_START_INJECTING)) =>
       /\ injPc = "exited"
       /\ Len(injRecvd) = 1
       /\ \A u \in Units : faults[u] = "created"
       /\ ~DoneSent
  /\ Len(injRecvd) = 2 => injPc \in {"exited"}

C11_Witness ==
  /\ injPc = "exited"
  /\ injRecvd = << Encode(MESSAGE_WRITE_LOGS) >>
  /\ ctlPc = "idle"
  /\ ctlRecvd = << Encode(MESSAGE_SETUP_DONE) >>

\* ---- resolver claims

\* the interfaces on the a side of the links joining a and b, in link order
RECURSIVE SideInterfaces(_, _, _)
SideInterfaces(links, a, b) ==
  IF links = << >> THEN << >>
  ELSE
    LET link == Head(links)
        n1 == NodeName(IntfNode(Intf1(link)))
        n2 == NodeName(IntfNode(Intf2(link)))
        here == IF n1 = a /\ n2 = b THEN << Intf1(link) >>
                ELSE IF n1 = b /\ n2 = a THEN << Intf2(link) >>
                ELSE << >>
    IN here \o SideInterfaces(Tail(links), a, b)

Unresolved == << NoneV, NoneV, identifier_string >>

\* C12: an explicit reference "a->b:i" resolves to (pid of a, i, reference)
\* if some link joining a and b, in either orientation, has the a-side
\* interface i, wherever that link stands among the links; otherwise to
\* (none, none, reference); the interface returned is never another than i.
C12_ExplicitResolves ==
  (resolved # << >> /\ reference[1] = "explicit") =>
    LET sides == SideInterfaces(NetLinks(net), reference[2], reference[3])
        hits == { k \in DOMAIN sides : IntfName(sides[k]) = reference[4] }
    IN /\ resolved[2] \in { NoneV, reference[4] }
       /\ resolved =
            IF hits = { } THEN Unresolved
            ELSE << NodePid(IntfNode(sides[CHOOSE k \in hits : TRUE])),
                    reference[4], identifier_string >>

\* C13: an implicit reference "a->b" resolves to the a-side interface of the
\* first link joining a and b in the topology's link order; (none, none,
\* reference) if there is no such link.
C13_ImplicitTakesFirstLink ==
  (resolved # << >> /\ reference[1] = "implicit") =>
    LET sides == SideInterfaces(NetLinks(net), reference[2], reference[3])
    IN resolved =
         IF sides = << >> THEN Unresolved
         ELSE << NodePid(IntfNode(sides[1])), IntfName(sides[1]),
                 identifier_string >>

\* C14: a bare-name reference "h" resolves to (pid of h, none, "h") if a host
\* named h is in the topology's host set, and to (none, none, "h") otherwise,
\* whatever links exist.
C14_BareNameResolves ==
  (resolved # << >> /\ reference[1] = "node") =>
    LET named == { k \in DOMAIN NetHosts(net) :
                     NodeName(NetHosts(net)[k]) = reference[2] }
    IN resolved =
         IF named = { } THEN Unresolved
         ELSE << NodePid(NetHosts(net)[CHOOSE k \in named : TRUE]), NoneV,
                 identifier_string >>

\* "h1" resolved in a topology where h1 is a host and has links
C14_Witness ==
  /\ reference = << "node", name_h1 >>
  /\ NetLinks(net) # << >>
  /\ resolved = << IntV(11), NoneV, name_h1 >>

\* ---- build claims

\* the injector has built its fault units from the Starter's configuration
Configured == bpc = "started" /\ injPc # "init"

\* the entry's type is link_fault:<kind> or node_fault:<kind>
IsLinkEntry(entry) ==
  entry.type # NoneV /\ StartsWith(entry.type, prefix_link_fault)
IsNodeEntry(entry) ==
  entry.type # NoneV /\ StartsWith(entry.type, prefix_node_fault)

\* the tag of the i-th entry: the user's, or the one generated for it
EntryTag(i, entry) == IF entry.tag = NoneV THEN Uuid("f", i) ELSE entry.tag

\* what a unit carries: <<process handle, interface, tag>>; a NodeInjector
\* has no interface
Carried(unit) ==
  IF unit.class = "LinkInjector"
    THEN << unit.target_namespace_pid, unit.target_interface, unit.tag >>
    ELSE << unit.target_process_pid, NoneV, unit.tag >>

\* per identifier of the fault entries of the file from the i-th on, in
\* order: <<resolved process handle, resolved interface, "<tag>@<identifier>",
\* class of the entry>>
RECURSIVE TargetsFrom(_)
TargetsFrom(i) ==
  IF i > Len(ConfigFaults(file_config)) THEN << >>
  ELSE
    LET entry == ConfigFaults(file_config)[i]
        here ==
          IF IsLinkEntry(entry) \/ IsNodeEntry(entry)
            THEN [k \in DOMAIN entry.identifiers |->
                    LET t ==
                      get_mininet_agnostic_identifiers_from_identifier_string(
                        net, entry.identifiers[k])
                    IN << t[1], t[2],
                          EntryTag(i, entry) \o << "@" >>
                            \o entry.identifiers[k],
                          IF IsLinkEntry(entry) THEN "link" ELSE "node" >>]
            ELSE << >>
    IN here \o TargetsFrom(i + 1)

C16_TagsDistinct ==
  Configured =>
    \A u, v \in DOMAIN injectors :
      u # v => injectors[u].tag # injectors[v].tag

\* the resolved triples of every fault entry of a built configuration
Triples(built) ==
  [i \in DOMAIN ConfigFaults(built) |->
     [k \in DOMAIN ConfigFaults(built)[i].identifiers |->
        literal_eval(ConfigFaults(built)[i].identifiers[k])]]

\* C17: a second build from the same configuration and topology returns, for
\* every fault entry, the same resolved triples as the first, and the
\* configuration given to the second build is the one given to the first.
C17_SecondBuildSame ==
  Len(builds) = 2 =>
    /\ builds[2][1] = builds[1][1]
    /\ builds[2][2] = "ok"
    /\ Triples(builds[2][3]) = Triples(builds[1][3])

\* the configuration has none but the errors C18 lists: no redirect entry
\* that lacks its type_args
ListedErrorsOnly ==
  filepath_to_config_file = NoneV
    \/ \A i \in DOMAIN ConfigFaults(file_config) :
         ConfigFaults(file_config)[i].type = type_link_redirect =>
           ConfigFaults(file_config)[i].type_args # NoneV

\* C18: for every configuration error (missing file path, entry without
\* type, unknown fault type, unrecognized protocol) the build completes, the
\* other entries yield their fault units and the injector gets to send ready.
C18_BuildNeverFails ==
  ListedErrorsOnly =>
    /\ bpc # "raised"
    /\ injPc # "crashed"
    /\ Configured =>
         /\ injSent # << >>
         /\ injSent[1] = Encode(MESSAGE_SETUP_DONE)
         /\ Len(injectors) = Len(TargetsFrom(1))

\* ---- completion signal

\* C19: if go() was called and every fault unit completes, the injector
\* sends done in the end, and from then on done is either pending, so that
\* the next is_active() call consumes it and returns false, or was consumed
\* by such a call; with and without a logger, whether or not write-logs is
\* ever sent.
C19_DoneReachesController ==
  /\ (goCalls > 0 /\ AllComplete) ~> DoneSent
  /\ [](DoneSent => (DonePending \/ DoneObserved))
  /\ [][ (IsActiveCall /\ DonePending) =>
           /\ ret' = FALSE
           /\ faults_are_active' = FALSE
           /\ DoneObserved'
       ]_vars

\* with a logger and units, done was sent and consumed by an is_active()
\* call that returned false, and write-logs was never sent
C19_Witness ==
  /\ config_has_log
  /\ Units # {}
  /\ AllComplete
  /\ DoneObserved
  /\ calls > 0
  /\ ret = FALSE
  /\ Encode(MESSAGE_WRITE_LOGS) \notin Range(ctlSent)
  /\ ctlPc = "idle"

ReadyThenDone ==
  << Encode(MESSAGE_SETUP_DONE), Encode(MESSAGE_INJECTION_DONE) >>

IsPrefix(s, t) == Len(s) <= Len(t) /\ s = SubSeq(t, 1, Len(s))

\* C20: what the injector has written to the injector->controller pipe is
\* always a prefix of [ready, done], setup-error is never written; the
\* constructor consumes ready, so all an is_active() call ever finds or
\* consumes is done.
C20_ReadyThenDoneOnly ==
  /\ IsPrefix(injSent, ReadyThenDone)
  /\ Encode(MESSAGE_SETUP_ERROR) \notin Range(injSent)
  /\ IsPrefix(ctlRecvd, ReadyThenDone)
  /\ ctlPc \in {"idle", "exited"} =>
       /\ ctlRecvd # << >>
       /\ pipe_faults_to_mininet \in
            { << >>, << Encode(MESSAGE_INJECTION_DONE) >> }

C20_Witness ==
  /\ injSent = ReadyThenDone
  /\ ctlRecvd = ReadyThenDone
  /\ calls = 1
  /\ ctlPc = "idle"

\* ---- start of the fault units

\* the injector has read a first message, and it was go
GoReadFirst ==
  /\ injRecvd # << >>
  /\ injRecvd[1] = Encode(MESSAGE_START_INJECTING)

\* some fault unit's go() was started
SomeUnitStarted ==
  /\ injPc \notin {"unborn", "init"}
  /\ \E u \in Units : faults[u] # "created"

\* C21: no fault unit starts running unless the first message the injector
\* received on the controller->injector pipe was go, which it receives only
\* after the controller's go() call; if the first message it receives is
\* anything else, it runs no fault unit and never sends done.
C21_UnitsOnlyAfterGo ==
  /\ SomeUnitStarted => GoReadFirst
  /\ GoReadFirst => (goCalls > 0 /\ GoSent)
  /\ (injRecvd # << >> /\ ~GoReadFirst) =>
       /\ ~SomeUnitStarted
       /\ ~DoneSent
       /\ injPc = "exited"

\* write-logs came first and ended the injector; the controller's later
\* go() starts no unit
C21_Witness ==
  /\ Units # {}
  /\ injRecvd # << >>
  /\ injRecvd[1] = Encode(MESSAGE_WRITE_LOGS)
  /\ goCalls > 0
  /\ GoSent
  /\ injPc = "exited"
  /\ \A u \in Units : faults[u] = "created"

====
